---- MODULE Spec2Model ----
(***************************************************************************)
(* Model of holoviews/plotting/plotly/element.py: style resolution         *)
(* (ElementPlot._apply_transforms, ColorbarPlot.get_color_opts), trace     *)
(* building (graph_options, init_graph), layout building (init_layout),    *)
(* figure generation (ElementPlot.generate_plot) and overlay composition   *)
(* (OverlayPlot.generate_plot).                                            *)
(*                                                                         *)
(* Python values are tagged records, so that values of different Python    *)
(* types never share a field:                                              *)
(*   [kind |-> "str", s]                  a string                         *)
(*   [kind |-> "scalar", dtype, val]      a number ("f") or one string     *)
(*                                        datum ("U", val its code)        *)
(*   [kind |-> "array", dtype, data]      a numpy array                    *)
(*   [kind |-> "dim", dimension, ops]     a dim transform                  *)
(*   [kind |-> "Dimension", name]         a Dimension object               *)
(*   [kind |-> "nan"], [kind |-> "bool", b], [kind |-> "none"]             *)
(* A dict whose iteration order matters (the style specification) is a     *)
(* sequence of items [k, v] with distinct keys; a dict that is only read   *)
(* by key is a function on its key set.                                    *)
(***************************************************************************)
EXTENDS Integers, Sequences, FiniteSets, TLC

VARIABLES
    plot,       \* the plot's parameters and class attributes
    element,    \* the Element being resolved / drawn
    ranges,     \* the Range Table
    style,      \* the style dict object the caller holds and passes in
    ret,        \* what the last call returned or raised
    handles,    \* the element plot's handles
    calls,      \* overlay: number of frames drawn
    kids,       \* overlay: the child element plots (hmap, handles)
    ohandles,   \* overlay: the overlay plot's handles
    lastkey,    \* overlay: the key of the last generate_plot
    oret,       \* overlay: what the last generate_plot returned or raised
    lay         \* layout: the layouts built by init_layout, by invert_axes

vars == <<plot, element, ranges, style, ret, handles, calls,
          kids, ohandles, lastkey, oret, lay>>

(***************************************************************************)
(* Bounds                                                                  *)
(***************************************************************************)
\* Number of data rows of an element
DataLen == 2
\* Number of style attributes of a style specification, besides cmap
MaxStyleKeys == 2
\* Number of child plots of the overlay
NKids == 3
\* Number of frames drawn by the overlay
MaxFrames == 3

(***************************************************************************)
(* Values                                                                  *)
(***************************************************************************)
Str(s) == [kind |-> "str", s |-> s]
Num(n) == [kind |-> "scalar", dtype |-> "f", val |-> n]
Arr(t, d) == [kind |-> "array", dtype |-> t, data |-> d]
NaN == [kind |-> "nan"]
None == [kind |-> "none"]
Bool(b) == [kind |-> "bool", b |-> b]
Dim(d, ops) == [kind |-> "dim", dimension |-> d, ops |-> ops]
Dimension(n) == [kind |-> "Dimension", name |-> n]
Op(fn, arg) == [fn |-> fn, arg |-> arg]

Item(k, v) == [k |-> k, v |-> v]

\* dict helpers: ordered dicts (sequences of items)
Keys(d) == {d[i].k : i \in DOMAIN d}
Get(d, k) == d[CHOOSE i \in DOMAIN d : d[i].k = k].v
PopKey(d, k) == SelectSeq(d, LAMBDA it : it.k # k)
AsDict(d) == [k \in Keys(d) |-> Get(d, k)]

\* dict helpers: dicts read by key (functions)
Empty == [k \in {} |-> None]
Put(f, k, v) == [x \in (DOMAIN f) \cup {k} |-> IF x = k THEN v ELSE f[x]]
Del(f, k) == [x \in (DOMAIN f) \ {k} |-> f[x]]
Update(f, g) == [x \in (DOMAIN f) \cup (DOMAIN g) |-> IF x \in DOMAIN g THEN g[x] ELSE f[x]]

\* Python's  sub in s  on strings
Contains(s, sub) ==
    \E i \in 1..(Len(s) - Len(sub) + 1) : SubSeq(s, i, i + Len(sub) - 1) = sub

SetMin(S) == CHOOSE m \in S : \A x \in S : m <= x
SetMax(S) == CHOOSE m \in S : \A x \in S : m >= x
Abs(n) == IF n < 0 THEN -n ELSE n
Range(s) == {s[i] : i \in DOMAIN s}

\* util.isscalar, util.unique_array
isscalar(val) == val.kind # "array"
unique_array(val) == Range(val.data)

(***************************************************************************)
(* Elements and dim transforms                                             *)
(***************************************************************************)
\* v in element: the element has a dimension of that name
InElement(name, el) == name \in Range(el.dims)

\* The dimensions a transform references: its own and those of its
\* operations' dim arguments
Referenced(v) == {v.dimension} \cup {v.ops[i].arg : i \in {j \in DOMAIN v.ops : v.ops[j].arg # ""}}

\* dim.applies: all referenced dimensions can be resolved on the element
applies(v, el) == \A d \in Referenced(v) : InElement(d, el)

\* One deferred operation applied to the values
ApplyOp(op, data, el) ==
    CASE op.fn = "add1"   -> [i \in DOMAIN data |-> data[i] + 1]
      [] op.fn = "mul0"   -> [i \in DOMAIN data |-> data[i] * 0]
      [] op.fn = "adddim" -> [i \in DOMAIN data |-> data[i] + el.data[op.arg].data[i]]

RECURSIVE ApplyOps(_, _, _)
ApplyOps(ops, data, el) ==
    IF ops = <<>> THEN data
    ELSE ApplyOps(Tail(ops), ApplyOp(Head(ops), data, el), el)

\* dim.apply(element, ranges=ranges, flat=True): the dimension's values with
\* the deferred operations applied in order; a dimension that is not on the
\* element cannot be looked up
apply(v, el, rng) ==
    IF ~applies(v, el) THEN [kind |-> "raise", type |-> "KeyError", dim |-> v.dimension]
    ELSE Arr(el.data[v.dimension].dtype, ApplyOps(v.ops, el.data[v.dimension].data, el))

OpText(op) == "." \o op.fn \o "(" \o op.arg \o ")"

RECURSIVE OpsText(_)
OpsText(ops) == IF ops = <<>> THEN "" ELSE OpText(Head(ops)) \o OpsText(Tail(ops))

\* repr(dim): the quoted dimension name for a bare transform
Repr(v) ==
    IF v.ops = <<>> THEN "'" \o v.dimension \o "'"
    ELSE "dim('" \o v.dimension \o "')" \o OpsText(v.ops)

\* plotting.util.dim_range_key
dim_range_key(eldim) ==
    IF eldim.kind = "dim"
    THEN LET dim_name == Repr(eldim)
         IN IF SubSeq(dim_name, 1, 1) = "'" /\ SubSeq(dim_name, Len(dim_name), Len(dim_name)) = "'"
            THEN SubSeq(dim_name, 2, Len(dim_name) - 1)
            ELSE dim_name
    ELSE eldim.name

\* element.range(dim_name): the range of the dimension's values
element_range(el, name) ==
    <<SetMin(Range(el.data[name].data)), SetMax(Range(el.data[name].data))>>

\* plotly.util.get_colorscale: the palette named by cmap, discretised into
\* the requested number of levels (0: continuous)
get_colorscale(cmap, levels, cmin, cmax) ==
    [kind |-> "colorscale", palette |-> cmap.s, levels |-> levels]

(***************************************************************************)
(* ColorbarPlot.get_color_opts                                             *)
(***************************************************************************)
\* BaseBounds with auto-scaling kept for transforms with operations only
BaseBoundsDerivedOnly(eldim, el, rng, dim_name) ==
    IF dim_name \in DOMAIN rng
    THEN <<Num(rng[dim_name].combined[1]), Num(rng[dim_name].combined[2]), FALSE>>
    ELSE IF eldim.kind = "dim" /\ eldim.ops # <<>>
    THEN <<NaN, NaN, TRUE>>
    ELSE <<Num(element_range(el, dim_name)[1]), Num(element_range(el, dim_name)[2]), FALSE>>

\* Lines 354-361: <<cmin, cmax, auto>> before the symmetric option
BaseBounds(eldim, el, rng, dim_name) ==
    IF dim_name \in DOMAIN rng
    THEN <<Num(rng[dim_name].combined[1]), Num(rng[dim_name].combined[2]), FALSE>>
    ELSE IF eldim.kind = "dim"
    THEN <<NaN, NaN, TRUE>>
    ELSE <<Num(element_range(el, dim_name)[1]), Num(element_range(el, dim_name)[2]), FALSE>>

\* Lines 362-364: the bounds made symmetric around zero; np.abs of nan is nan
Symmetric(p, base) ==
    IF p.symmetric /\ base[1].kind = "scalar"
    THEN <<Num(-SetMax({Abs(base[1].val), Abs(base[2].val)})),
           Num(SetMax({Abs(base[1].val), Abs(base[2].val)})), base[3]>>
    ELSE base

\* The bounds branch (lines 353-364): <<cmin, cmax, auto>>.  eldim is a dim
\* transform or a Dimension: dim_range_key has no key for anything else.
ColorBounds(p, eldim, el, rng) ==
    Symmetric(p, BaseBounds(eldim, el, rng, dim_range_key(eldim)))

\* Line 346 and 348: the title of the colorbar
ColorbarTitle(eldim, text) ==
    IF eldim.kind = "dim"
    THEN (IF eldim.ops # <<>> THEN text ELSE SubSeq(text, 2, Len(text) - 1))
    ELSE eldim.name

\* The colorbar / showscale entry (lines 344-351)
ColorbarEntry(p, eldim) ==
    IF p.colorbar
    THEN [colorbar |-> [kind |-> "colorbar",
                        title |-> ColorbarTitle(eldim, IF eldim.kind = "dim" THEN Repr(eldim) ELSE "")]]
    ELSE [showscale |-> Bool(FALSE)]

\* style.pop('cmap', 'viridis'): the value popped
PoppedCmap(st) == IF "cmap" \in Keys(st) THEN Get(st, "cmap") ELSE Str("viridis")

\* Lines 369-377, with b = <<cmin, cmax, auto>>
ColorOpts(p, eldim, st, b) ==
    Update(ColorbarEntry(p, eldim),
           [cmin |-> b[1], cmax |-> b[2], cauto |-> Bool(b[3]),
            colorscale |-> get_colorscale(PoppedCmap(st), p.color_levels, b[1], b[2])])

\* Returns [opts, style]: the options, and the style dict as the call
\* leaves it
get_color_opts(p, eldim, el, rng, st) ==
    [opts |-> ColorOpts(p, eldim, st, ColorBounds(p, eldim, el, rng)),
     style |-> PopKey(st, "cmap")]

(***************************************************************************)
(* ElementPlot._apply_transforms                                           *)
(***************************************************************************)
\* Lines 211-215: a string naming a dimension of the element, or an overlay
\* dimension, becomes a bare dim transform
Coerce(p, el, v) ==
    IF v.kind = "str"
    THEN IF InElement(v.s, el) THEN Dim(v.s, <<>>)
         ELSE IF v.s \in DOMAIN p.overlay_dims THEN Dim(v.s, <<>>)
         ELSE v
    ELSE v

\* Line 219: the transform cannot be applied
Unresolvable(p, el, v) ==
    ~applies(v, el) /\ v.dimension \notin DOMAIN p.overlay_dims

\* Lines 225-228: the value of the transform
Evaluate(p, el, rng, v) ==
    IF v.ops = <<>> /\ v.dimension \in DOMAIN p.overlay_dims
    THEN p.overlay_dims[v.dimension]
    ELSE apply(v, el, rng)

\* Collapse without the exemption of colors
CollapseAny(k, val) ==
    IF ~isscalar(val) /\ Cardinality(unique_array(val)) = 1
    THEN [kind |-> "scalar", dtype |-> val.dtype, val |-> val.data[1]]
    ELSE val

\* Lines 230-232: an array with one distinct value becomes that value,
\* unless the attribute is a color
Collapse(k, val) ==
    IF ~isscalar(val) /\ Cardinality(unique_array(val)) = 1 /\ ~Contains(k, "color")
    THEN [kind |-> "scalar", dtype |-> val.dtype, val |-> val.data[1]]
    ELSE val

\* Unsupported with the test of the value inverted
UnsupportedScalar(p, k, val) ==
    isscalar(val) /\ k \in p.nonvectorized_styles

\* Lines 234-235: the value is an array and the style cannot be vectorized
Unsupported(p, k, val) ==
    ~isscalar(val) /\ k \in p.nonvectorized_styles

\* Lines 236-244: the error raised
StyleError(p, el, k, v) ==
    [kind |-> "raise", type |-> "ValueError", style |-> k, dim |-> v.dimension,
     element |-> el.type, backend |-> p.backend]

\* Lines 247-248: the value needs a colormapper
NeedsColormap(k, val) ==
    Contains(k, "color") /\ val.kind = "array" /\ val.dtype = "f"

\* The loop body (lines 210-252) on the item (k, v), in the order of the
\* code.  acc = [new_style, style, warnings, exc]: the dict being built, the
\* style dict that was passed in, the warnings emitted, the exception raised.

\* Lines 249-252, with c what get_color_opts returned
StepColor(acc, k, val, c) ==
    [acc EXCEPT !.style = c.style,
                !.new_style = Put(Update(Del(@, "cmap"), c.opts), k, val)]

\* Lines 234-252, with val the value after the collapse
StepValue(p, el, rng, acc, k, v, val) ==
    IF Unsupported(p, k, val) THEN [acc EXCEPT !.exc = StyleError(p, el, k, v)]
    ELSE IF NeedsColormap(k, val)
    THEN StepColor(acc, k, val, get_color_opts(p, v, el, rng, acc.style))
    ELSE [acc EXCEPT !.new_style = Put(@, k, val)]

\* Lines 230-252, with raw what the transform evaluated to
StepRaw(p, el, rng, acc, k, v, raw) ==
    IF raw.kind = "raise" THEN [acc EXCEPT !.exc = raw]
    ELSE StepValue(p, el, rng, acc, k, v, Collapse(k, raw))

\* Lines 217-252, with v the value after the coercion of strings
StepDim(p, el, rng, acc, k, v) ==
    IF v.kind # "dim" THEN acc
    ELSE IF Unresolvable(p, el, v)
    THEN [acc EXCEPT !.new_style = Del(@, k),
                     !.warnings = Append(@, [attr |-> k, transform |-> v])]
    ELSE StepRaw(p, el, rng, acc, k, v, Evaluate(p, el, rng, v))

TransformStep(p, el, rng, acc, k, v0) ==
    StepDim(p, el, rng, acc, k, Coerce(p, el, v0))

RECURSIVE TransformLoop(_, _, _, _, _)
TransformLoop(p, el, rng, items, acc) ==
    IF items = <<>> \/ acc.exc # None THEN acc
    ELSE TransformLoop(p, el, rng, Tail(items),
                       TransformStep(p, el, rng, acc, Head(items).k, Head(items).v))

\* Returns [new_style, style, warnings, exc]; new_style is returned to the
\* caller only when exc = None
apply_transforms(p, el, rng, st) ==
    TransformLoop(p, el, rng, st,
                  [new_style |-> AsDict(st), style |-> st, warnings |-> <<>>, exc |-> None])

(***************************************************************************)
(* ElementPlot.graph_options, init_graph                                   *)
(***************************************************************************)
\* plotly.util.STYLE_ALIASES.get(k, k)
StyleAlias(k) ==
    CASE k = "line_width" -> "width"
      [] k = "alpha" -> "opacity"
      [] k = "cell_height" -> "height"
      [] k = "marker" -> "symbol"
      [] OTHER -> k

Aliased(d) == [a \in {StyleAlias(k) : k \in DOMAIN d} |->
                 d[CHOOSE k \in DOMAIN d : StyleAlias(k) = a]]

\* A nested dict, as opposed to a tagged value
IsDict(x) == "kind" \notin DOMAIN x

\* Lines 145-149: the legend entry
Legend(p, el) ==
    IF DOMAIN p.overlay_dims # {}
    THEN [kind |-> "joined", pairs |-> p.overlay_dims]
    ELSE Str(el.label)

\* Lines 151-153: the options before the styles
BaseOptions(p, el) ==
    Update([showlegend |-> Bool(p.show_legend), legendgroup |-> Str(el.group),
            name |-> Legend(p, el)], p.trace_kwargs)

\* Lines 156-158, with r what _apply_transforms returned
StyledOptions(p, base, r) ==
    [opts |-> IF r.exc = None THEN Put(base, p.style_key, Aliased(r.new_style)) ELSE base,
     style |-> r.style, warnings |-> r.warnings, exc |-> r.exc]

\* Returns [opts, style, warnings, exc]
graph_options(p, el, rng, st) ==
    IF p.style_key # ""
    THEN StyledOptions(p, BaseOptions(p, el), apply_transforms(p, el, rng, st))
    ELSE [opts |-> Update(BaseOptions(p, el), Aliased(Del(AsDict(st), "cmap"))),
          style |-> st, warnings |-> <<>>, exc |-> None]

\* Line 169: the keys of the data whose value in options is a nested dict
SharedKeys(data, options) ==
    {k \in DOMAIN data : k \in DOMAIN options /\ IsDict(options[k])}

\* Line 170: trace = dict(options) copies the top level only, so the update
\* of a nested dict is an update of the options' own nested dict
UpdatedOptions(data, options, shared) ==
    [k \in DOMAIN options |->
       IF k \in shared THEN Update(options[k], data[k]) ELSE options[k]]

\* Lines 167-172, with options as the updates leave it
MergedTrace(data, options, shared) ==
    Update(options, [k \in (DOMAIN data) \ shared |-> data[k]])

\* Lines 174-179: the style group is copied and its arrays are indexed by
\* the trace's index (0-based)
PerTrace(p, trace, options, index) ==
    IF p.style_key # "" /\ p.per_trace
    THEN [trace EXCEPT ![p.style_key] =
            [s \in DOMAIN trace[p.style_key] |->
               IF s \in DOMAIN options[p.style_key] /\ options[p.style_key][s].kind = "array"
               THEN [kind |-> "scalar", dtype |-> options[p.style_key][s].dtype,
                     val |-> options[p.style_key][s].data[index + 1]]
               ELSE trace[p.style_key][s]]]
    ELSE trace

TraceOf(p, data, options2, shared, index) ==
    [trace |-> PerTrace(p, MergedTrace(data, options2, shared), options2, index),
     options |-> options2]

\* Returns [trace, options]: the trace, and options as the call leaves it
init_graph(p, data, options, index) ==
    TraceOf(p, data, UpdatedOptions(data, options, SharedKeys(data, options)),
            SharedKeys(data, options), index)

\* The nested dicts of a trace that are still the options' own objects
SharedGroups(p, options) ==
    {k \in DOMAIN options : IsDict(options[k]) /\ ~(p.style_key = k /\ p.per_trace)}

GraphLoopNext(acc, g) ==
    [graphs |-> Append(acc.graphs, g.trace), options |-> g.options]

\* Lines 127-131: the loop over the data records.
\* acc = [graphs, options]
RECURSIVE GraphLoop(_, _, _, _)
GraphLoop(p, data, i, acc) ==
    IF i > Len(data) THEN acc
    ELSE GraphLoop(p, data, i + 1,
                   GraphLoopNext(acc, init_graph(p, data[i], acc.options, i - 1)))

\* The traces once the loop has ended: a nested dict shared with options
\* shows every update made to it
FinalGraphs(p, r) ==
    [i \in DOMAIN r.graphs |->
       [k \in DOMAIN r.graphs[i] |->
          IF k \in SharedGroups(p, r.options) THEN r.options[k] ELSE r.graphs[i][k]]]

Graphs(p, data, options) ==
    FinalGraphs(p, GraphLoop(p, data, 1, [graphs |-> <<>>, options |-> options]))

\* ElementPlot.get_data is overridden by each element's plot class: the
\* geometric records of the element
get_data(el, rng, st) == el.records

(***************************************************************************)
(* ElementPlot.init_layout                                                 *)
(***************************************************************************)
\* Lines 201-205: the first two dimensions, padded with None
get_axis_dims(el) ==
    LET dims == SubSeq(el.dims, 1, IF Len(el.dims) < 2 THEN Len(el.dims) ELSE 2)
    IN IF Len(dims) = 1 THEN dims \o <<"", "">> ELSE dims \o <<"">>

\* GenericElementPlot._get_axis_labels: the label of each axis dimension,
\* empty where there is none
get_axis_labels(dims) == [i \in 1..3 |-> IF i <= Len(dims) THEN dims[i] ELSE ""]

\* The extent of one dimension: the range table's combined bounds, else the
\* range of the data; undefined where there is no dimension
DimExtent(el, rng, d) ==
    IF d = "" THEN <<NaN, NaN>>
    ELSE IF d \in DOMAIN rng THEN <<Num(rng[d].combined[1]), Num(rng[d].combined[2])>>
    ELSE <<Num(element_range(el, d)[1]), Num(element_range(el, d)[2])>>

\* GenericElementPlot.get_extents: (l, b, r, t), or (l, b, z0, r, t, z1) for
\* an element drawn in three dimensions
Extent(el, x, y, z) ==
    IF el.threed THEN <<x[1], y[1], z[1], x[2], y[2], z[2]>>
    ELSE <<x[1], y[1], x[2], y[2]>>

get_extents(el, rng) ==
    Extent(el, DimExtent(el, rng, get_axis_dims(el)[1]),
           DimExtent(el, rng, get_axis_dims(el)[2]),
           DimExtent(el, rng, IF Len(el.dims) >= 3 THEN el.dims[3] ELSE ""))

\* Lines 303-314: the tick override of an axis.  ticker is None, a list of
\* positions or a list of (position, label) tuples.
get_ticks(axis, ticker) ==
    IF ticker.kind = "list" THEN Put(axis, "tickvals", ticker)
    ELSE IF ticker.kind = "pairs"
    THEN Put(Put(axis, "tickvals", [kind |-> "list", items |-> [i \in DOMAIN ticker.items |-> ticker.items[i][1]]]),
             "ticktext", [kind |-> "texts", items |-> [i \in DOMAIN ticker.items |-> ticker.items[i][2]]])
    ELSE axis

\* Lines 259-262: (l, b, r, t) of the extent
Sides(extent) ==
    IF Len(extent) = 4 THEN extent
    ELSE <<extent[1], extent[2], extent[4], extent[5]>>

\* Lines 273-275: <<xlabel, ylabel, l, b, r, t>> after the inversion
Inverted(p, labels, e) ==
    IF p.invert_axes
    THEN <<labels[2], labels[1], e[2], e[1], e[4], e[3]>>
    ELSE <<labels[1], labels[2], e[1], e[2], e[3], e[4]>>

\* Lines 277-280: the label of an axis that is not labelled is blanked
Suppressed(p, a) ==
    <<IF "x" \in p.labelled THEN a[1] ELSE "",
      IF "y" \in p.labelled THEN a[2] ELSE "",
      a[3], a[4], a[5], a[6]>>

AxisSetup(p, labels, e) == Suppressed(p, Inverted(p, labels, e))

\* Lines 283-286 and 290-293: one axis
Axis(range, title, log, ticker) ==
    get_ticks(Update([range |-> range, title |-> Str(title)],
                     IF log THEN [type |-> Str("log")] ELSE Empty), ticker)

\* Lines 282-294: the axis entries of the layout
AxisOptions(p, xdim, ydim, a) ==
    Update(IF xdim # "" THEN [xaxis |-> Axis(<<a[3], a[5]>>, a[1], p.logx, p.xticks)] ELSE Empty,
           IF ydim # "" THEN [yaxis |-> Axis(<<a[4], a[6]>>, a[2], p.logy, p.yticks)] ELSE Empty)

\* Lines 296-301: the figure-level entries
FigureOptions(p, key) ==
    [width |-> Num(p.width), height |-> Num(p.height),
     title |-> [kind |-> "title", key |-> key],
     plot_bgcolor |-> p.bgcolor,
     margin |-> [l |-> Num(p.margins[1]), r |-> Num(p.margins[3]),
                 b |-> Num(p.margins[2]), t |-> Num(p.margins[4]), pad |-> Num(4)]]

LayoutOf(p, key, dims, a) ==
    Update(FigureOptions(p, key), AxisOptions(p, dims[1], dims[2], a))

init_layout(p, key, el, rng) ==
    LayoutOf(p, key, get_axis_dims(el),
             AxisSetup(p, get_axis_labels(get_axis_dims(el)), Sides(get_extents(el, rng))))

(***************************************************************************)
(* ElementPlot.generate_plot                                               *)
(***************************************************************************)
\* Options.__getitem__: the style dict of the cycle at the cyclic index, a
\* new dict on every lookup
LookupStyle(options, cyclic_index) == options[(cyclic_index % Len(options)) + 1]

\* Lines 132-141, with the traces and the layout built
Drawn(h, graphs, layout, warnings) ==
    [handles |-> Update(h, [graphs |-> graphs, layout |-> layout,
                            fig |-> [data |-> graphs, layout |-> layout]]),
     fig |-> [data |-> graphs, layout |-> layout], exc |-> None, warnings |-> warnings]

\* Lines 126-141, with o what graph_options returned
DrawFrame(p, h, key, el, rng, data, o) ==
    IF o.exc # None
    THEN [handles |-> h, fig |-> None, exc |-> o.exc, warnings |-> o.warnings]
    ELSE Drawn(h, Graphs(p, data, o.opts), init_layout(p, key, el, rng), o.warnings)

\* Lines 121-141, with st the style dict looked up
DrawStyled(p, h, key, el, rng, st) ==
    DrawFrame(p, h, key, el, rng, get_data(el, rng, st), graph_options(p, el, rng, st))

\* Returns [handles, fig, exc, warnings]: the plot's handles after the call,
\* the figure returned and the exception raised (None where there is none).
\* el = None when the plot has no frame for the key.
generate_plot(p, h, key, el, rng) ==
    IF el = None
    THEN IF "fig" \in DOMAIN h
         THEN [handles |-> h, fig |-> h.fig, exc |-> None, warnings |-> <<>>]
         ELSE [handles |-> h, fig |-> None,
               exc |-> [kind |-> "raise", type |-> "KeyError", dim |-> "fig"],
               warnings |-> <<>>]
    ELSE DrawStyled(p, h, key, el, rng, LookupStyle(p.style, p.cyclic_index))

(***************************************************************************)
(* OverlayPlot.generate_plot                                               *)
(***************************************************************************)
\* plotly.util.merge_figure(fig, subfig): extends fig's traces with those of
\* subfig and merges subfig's layout into fig's, in place
MergeLayout(a, b) ==
    [k \in (DOMAIN a) \cup (DOMAIN b) |->
       IF k \notin DOMAIN b THEN a[k]
       ELSE IF k \in DOMAIN a /\ IsDict(a[k]) /\ IsDict(b[k]) THEN Update(a[k], b[k])
       ELSE b[k]]

merge_figure(fig, subfig) ==
    [data |-> fig.data \o subfig.data, layout |-> MergeLayout(fig.layout, subfig.layout)]

\* The parameters of the i-th child plot
KidPlot(p, i) == [p EXCEPT !.cyclic_index = i - 1]

\* Combine with the arguments of merge_figure exchanged
CombineSwapped(figure, fig) ==
    IF figure = None THEN fig ELSE merge_figure(fig, figure)

\* Lines 404-407: the first figure returned is the combined figure itself,
\* every later one is merged into it
Combine(figure, fig) ==
    IF figure = None THEN fig ELSE merge_figure(figure, fig)

\* figure is the dict held by the first child's handles: what is done to it
\* shows in handles['fig'], handles['graphs'] and handles['layout'] there
Held(ks, figure) ==
    IF figure = None THEN ks
    ELSE [ks EXCEPT ![1].handles =
            Update(@, [fig |-> figure, graphs |-> figure.data, layout |-> figure.layout])]

\* Lines 403-407, with r what the child's generate_plot returned and ks the
\* child plots with that child's handles as the call left them
SubplotDone(acc, ks, r) ==
    IF r.exc # None
    THEN [kids |-> ks, figure |-> acc.figure, exc |-> r.exc]
    ELSE [kids |-> Held(ks, Combine(acc.figure, r.fig)),
          figure |-> Combine(acc.figure, r.fig), exc |-> None]

SubplotStep(acc, i, r) ==
    SubplotDone(acc, [acc.kids EXCEPT ![i].handles = r.handles], r)

\* Lines 402-407: the loop over the subplots.
\* acc = [kids, figure, exc]
RECURSIVE SubplotLoop(_, _, _, _, _)
SubplotLoop(p, key, rng, i, acc) ==
    IF i > Len(acc.kids) \/ acc.exc # None THEN acc
    ELSE SubplotLoop(p, key, rng, i + 1,
                     SubplotStep(acc, i, generate_plot(KidPlot(p, i), acc.kids[i].handles,
                                                       key, acc.kids[i].hmap[key], rng)))

\* Lines 409-411: the overlay's own layout is written over the combined one
WithLayout(figure, layout) == [figure EXCEPT !.layout = Update(@, layout)]

OverlayDrawn(ks, oh, figure) ==
    [kids |-> Held(ks, figure), handles |-> Put(oh, "fig", figure),
     fig |-> figure, exc |-> None]

\* Lines 409-412, with r what the loop over the subplots left
OverlayDone(p, oh, key, frame, rng, r) ==
    IF r.exc # None
    THEN [kids |-> r.kids, handles |-> oh, fig |-> None, exc |-> r.exc]
    ELSE OverlayDrawn(r.kids, oh, WithLayout(r.figure, init_layout(p, key, frame, rng)))

\* Returns [kids, handles, fig, exc]: the child plots and the overlay's
\* handles after the call, the figure returned and the exception raised.
\* frame is the overlay's own frame for the key.
overlay_generate_plot(p, ks, oh, key, frame, rng) ==
    OverlayDone(p, oh, key, frame, rng,
                SubplotLoop(p, key, rng, 1, [kids |-> ks, figure |-> None, exc |-> None]))

(***************************************************************************)
(* Inputs                                                                  *)
(***************************************************************************)
Ramp == [i \in 1..DataLen |-> i]
Const(n) == [i \in 1..DataLen |-> n]

\* The parameter defaults of ElementPlot (lines 16-94) and ColorbarPlot
\* (lines 326-339), for a plot class that nests its styles under 'marker'
DefaultPlot ==
    [overlay_dims |-> Empty, nonvectorized_styles |-> {}, colorbar |-> FALSE,
     symmetric |-> FALSE, color_levels |-> 0, backend |-> "plotly",
     style_key |-> "marker", per_trace |-> FALSE, show_legend |-> FALSE,
     trace_kwargs |-> Empty, style |-> <<(<<>>)>>, cyclic_index |-> 0,
     invert_axes |-> FALSE, labelled |-> {"x", "y"}, logx |-> FALSE, logy |-> FALSE,
     xticks |-> None, yticks |-> None, margins |-> <<50, 50, 50, 50>>,
     width |-> 400, height |-> 400, bgcolor |-> None, drawn |-> FALSE]

\* An element with dimensions x, y, size and label; size and label hold one
\* distinct value unless varied
StyleElement(varied) ==
    [type |-> "Scatter", label |-> "", group |-> "Scatter", threed |-> FALSE,
     dims |-> <<"x", "y", "size", "label">>,
     data |-> [x |-> Arr("f", Ramp), y |-> Arr("f", Ramp),
               size |-> Arr("f", IF varied THEN [i \in 1..DataLen |-> i + 4] ELSE Const(5)),
               label |-> Arr("U", IF varied THEN Ramp ELSE Const(1))],
     records |-> << [x |-> Arr("f", Ramp), y |-> Arr("f", Ramp)] >>]

StyleKeys == {"size", "color", "line_color"}

\* The values a style attribute is given: literals, dimension names and dim
\* transforms; "cat" is an overlay dimension, "missing" is no dimension
StyleValues(k) ==
    CASE k = "size" -> {Num(3), Str("size"), Str("cat"), Dim("size", <<Op("add1", "")>>),
                        Dim("missing", <<>>), Dim("cat", <<Op("adddim", "missing")>>)}
      [] k = "color" -> {Str("red"), Str("size"), Str("label")}
      [] k = "line_color" -> {Str("size"), Dim("size", <<Op("mul0", "")>>)}

\* The style dicts of up to n attributes, in every insertion order
RECURSIVE StyleDicts(_)
StyleDicts(n) ==
    IF n = 0 THEN {<<>>}
    ELSE LET S == StyleDicts(n - 1)
         IN S \cup UNION {UNION {{Append(d, Item(k, v)) : v \in StyleValues(k)}
                                 : k \in StyleKeys \ Keys(d)}
                          : d \in {t \in S : Len(t) = n - 1}}

Styles ==
    StyleDicts(MaxStyleKeys) \cup {<<Item("cmap", Str("fire"))>> \o d : d \in StyleDicts(MaxStyleKeys)}

RangeTables ==
    {Empty,
     Put([size |-> [combined |-> <<-20, 10>>]], "dim('size').add1()", [combined |-> <<1, 6>>])}

OverlayDims == {Empty, [cat |-> [kind |-> "scalar", dtype |-> "U", val |-> 1]]}

(***************************************************************************)
(* Style resolution: the calls made on one element plot                    *)
(***************************************************************************)
NoCall == [call |-> "none"]

InitStyle ==
    /\ plot \in {[DefaultPlot EXCEPT !.overlay_dims = od, !.nonvectorized_styles = nv,
                                     !.colorbar = cs, !.symmetric = cs, !.style = <<st>>]
                 : od \in OverlayDims, nv \in {{}, {"size", "line_color"}},
                   cs \in BOOLEAN, st \in Styles}
    /\ element \in {StyleElement(b) : b \in BOOLEAN}
    /\ ranges \in RangeTables
    /\ style = LookupStyle(plot.style, plot.cyclic_index)
    /\ ret = NoCall
    /\ handles = Empty
    /\ calls = 0
    /\ kids = <<>>
    /\ ohandles = Empty
    /\ lastkey = 0
    /\ oret = NoCall
    /\ lay = Empty

Applied(r) ==
    /\ style' = r.style
    /\ ret' = [call |-> "apply", arg |-> style, exc |-> r.exc, warnings |-> r.warnings,
               out |-> IF r.exc = None THEN r.new_style ELSE None]
    /\ UNCHANGED <<plot, element, ranges, handles, calls, kids, ohandles, lastkey, oret, lay>>

\* A caller resolves the style dict it holds
ApplyTransforms == Applied(apply_transforms(plot, element, ranges, style))

\* ElementPlot.initialize_plot (lines 96-103) and update_frame (lines
\* 316-321), on the plot's one frame
Generated(name, r) ==
    /\ handles' = r.handles
    /\ ret' = [call |-> name, arg |-> LookupStyle(plot.style, plot.cyclic_index),
               exc |-> r.exc, warnings |-> r.warnings, out |-> r.fig]
    /\ plot' = IF name = "initialize_plot" /\ r.exc = None
               THEN [plot EXCEPT !.drawn = TRUE] ELSE plot
    /\ UNCHANGED <<style, element, ranges, calls, kids, ohandles, lastkey, oret, lay>>

InitializePlot ==
    Generated("initialize_plot", generate_plot(plot, handles, 1, element, ranges))

UpdateFrame ==
    Generated("update_frame", generate_plot(plot, handles, 1, element, ranges))

NextStyle ==
    \/ ApplyTransforms
    \/ InitializePlot
    \/ UpdateFrame

SpecStyle == InitStyle /\ [][NextStyle]_vars

(***************************************************************************)
(* Color mapping: the calls of get_color_opts                              *)
(***************************************************************************)
\* What get_color_opts is called with: the dim transforms that
\* _apply_transforms passes (line 249), and the Dimension objects that the
\* plot classes of the elements pass
ColorDims ==
    {Dim("size", <<>>), Dim("size", <<Op("add1", "")>>), Dim("x", <<>>),
     Dim("x", <<Op("adddim", "size")>>), Dimension("size"), Dimension("x")}

ColorStyles ==
    {<<>>, <<Item("cmap", Str("fire"))>>,
     <<Item("cmap", Str("fire")), Item("color", Str("size"))>>,
     <<Item("color", Dim("size", <<Op("add1", "")>>))>>}

InitColor ==
    /\ plot \in {[DefaultPlot EXCEPT !.colorbar = cb, !.symmetric = sy, !.color_levels = lv,
                                     !.style = <<st>>]
                 : cb \in BOOLEAN, sy \in BOOLEAN, lv \in {0, 5}, st \in ColorStyles}
    /\ element \in {StyleElement(b) : b \in BOOLEAN}
    /\ ranges \in RangeTables \cup {[x |-> [combined |-> <<0, 3>>]]}
    /\ style = LookupStyle(plot.style, plot.cyclic_index)
    /\ ret = NoCall
    /\ handles = Empty
    /\ calls = 0
    /\ kids = <<>>
    /\ ohandles = Empty
    /\ lastkey = 0
    /\ oret = NoCall
    /\ lay = Empty

GotColorOpts(eldim, r) ==
    /\ style' = r.style
    /\ ret' = [call |-> "color", arg |-> style, eldim |-> eldim, out |-> r.opts]
    /\ UNCHANGED <<plot, element, ranges, handles, calls, kids, ohandles, lastkey, oret, lay>>

\* A caller asks for the color options of a dimension
GetColorOpts(eldim) ==
    GotColorOpts(eldim, get_color_opts(plot, eldim, element, ranges, style))

NextColor == \E eldim \in ColorDims : GetColorOpts(eldim)

SpecColor == InitColor /\ [][NextColor]_vars

(***************************************************************************)
(* Overlay composition: the frames drawn by one overlay plot               *)
(***************************************************************************)
FrameKeys == 1..2

\* The records of the element of child i at a key: children with an odd
\* index yield two records, each with fields of its own in the 'marker'
\* group
KidRecords(i, key) ==
    IF i % 2 = 1
    THEN << [x |-> Arr("f", Ramp), y |-> Arr("f", Const(10 * i + key)),
             marker |-> [symbol |-> Str("circle")]],
            [x |-> Arr("f", Ramp), y |-> Arr("f", Const(10 * i + key + 100)),
             marker |-> [line |-> Str("dash")]] >>
    ELSE << [x |-> Arr("f", Ramp), y |-> Arr("f", Const(10 * i + key))] >>

\* The element of child i at a key; its values differ from key to key
KidElement(i, key) ==
    [type |-> "Scatter", label |-> "", group |-> "Scatter", threed |-> FALSE,
     dims |-> <<"x", "y", "size">>,
     data |-> [x |-> Arr("f", Ramp), y |-> Arr("f", Const(10 * i + key)),
               size |-> Arr("f", IF i = 2 /\ key = 2 THEN Ramp ELSE Const(4 + key))],
     records |-> KidRecords(i, key)]

\* The overlay's own frame at a key
OverlayFrame(key) ==
    [type |-> "Overlay", label |-> "", group |-> "Overlay", threed |-> FALSE,
     dims |-> <<"x", "y">>,
     data |-> [x |-> Arr("f", Ramp), y |-> Arr("f", Ramp)],
     records |-> <<>>]

StyleCycles ==
    { << <<Item("size", Str("size"))>> >>,
      << <<Item("cmap", Str("fire")), Item("color", Str("size"))>>, <<Item("size", Num(3))>> >> }

InitOverlay ==
    /\ plot \in {[DefaultPlot EXCEPT !.per_trace = pt, !.nonvectorized_styles = nv, !.style = cy]
                 : pt \in BOOLEAN, nv \in {{}, {"size"}}, cy \in StyleCycles}
    /\ kids \in {[i \in 1..NKids |->
                    [hmap |-> [k \in FrameKeys |-> IF pres[i][k] THEN KidElement(i, k) ELSE None],
                     handles |-> Empty]]
                 : pres \in [1..NKids -> [FrameKeys -> BOOLEAN]]}
    /\ ranges = [x |-> [combined |-> <<0, 10>>], y |-> [combined |-> <<0, 20>>]]
    /\ ohandles = Empty
    /\ lastkey = 0
    /\ oret = NoCall
    /\ calls = 0
    /\ element = None
    /\ style = <<>>
    /\ ret = NoCall
    /\ handles = Empty
    /\ lay = Empty

OverlayGenerated(name, key, r) ==
    /\ kids' = r.kids
    /\ ohandles' = r.handles
    /\ lastkey' = key
    /\ oret' = [call |-> name, key |-> key, exc |-> r.exc, out |-> r.fig]
    /\ calls' = calls + 1
    /\ UNCHANGED <<plot, element, ranges, style, ret, handles, lay>>

\* OverlayPlot.initialize_plot (lines 389-394): the first key of the hmap
OverlayInitialize ==
    /\ calls = 0
    /\ OverlayGenerated("initialize_plot", 1,
                        overlay_generate_plot(plot, kids, ohandles, 1, OverlayFrame(1), ranges))

\* update_frame (lines 316-321) on the overlay plot
OverlayUpdate(key) ==
    /\ calls > 0
    /\ calls < MaxFrames
    /\ OverlayGenerated("update_frame", key,
                        overlay_generate_plot(plot, kids, ohandles, key, OverlayFrame(key), ranges))

NextOverlay ==
    \/ OverlayInitialize
    \/ \E key \in FrameKeys : OverlayUpdate(key)

SpecOverlay == InitOverlay /\ [][NextOverlay]_vars

(***************************************************************************)
(* Layout: the layouts built by one element plot                           *)
(***************************************************************************)
\* An element of n dimensions; one of three dimensions is drawn in 3D
LayoutElement(n) ==
    [type |-> "Scatter", label |-> "", group |-> "Scatter", threed |-> (n = 3),
     dims |-> SubSeq(<<"x", "y", "z">>, 1, n),
     data |-> [x |-> Arr("f", Ramp), y |-> Arr("f", Const(7)),
               z |-> Arr("f", [i \in 1..DataLen |-> i + 8])],
     records |-> <<>>]

Tickers == {None, [kind |-> "list", items |-> <<1, 2>>],
            [kind |-> "pairs", items |-> << <<1, "a">>, <<2, "b">> >>]}

InitLayout ==
    /\ plot \in {[DefaultPlot EXCEPT !.invert_axes = iv, !.labelled = lb, !.logx = lg,
                                     !.logy = ~lg, !.xticks = tk]
                 : iv \in BOOLEAN, lb \in SUBSET {"x", "y"}, lg \in BOOLEAN, tk \in Tickers}
    /\ element \in {LayoutElement(n) : n \in 1..3}
    /\ ranges \in {Empty, [x |-> [combined |-> <<0, 10>>], y |-> [combined |-> <<0, 20>>]]}
    /\ lay = Empty
    /\ style = <<>>
    /\ ret = NoCall
    /\ handles = Empty
    /\ calls = 0
    /\ kids = <<>>
    /\ ohandles = Empty
    /\ lastkey = 0
    /\ oret = NoCall

\* The invert_axes parameter is set
SetInvertAxes(b) ==
    /\ plot.invert_axes # b
    /\ plot' = [plot EXCEPT !.invert_axes = b]
    /\ UNCHANGED <<element, ranges, style, ret, handles, calls, kids, ohandles, lastkey, oret, lay>>

\* init_layout is called; the layout is kept under the setting it was built
\* with
BuildLayout ==
    /\ lay' = Put(lay, IF plot.invert_axes THEN "inverted" ELSE "plain",
                  init_layout(plot, 1, element, ranges))
    /\ UNCHANGED <<plot, element, ranges, style, ret, handles, calls, kids, ohandles, lastkey, oret>>

NextLayout ==
    \/ \E b \in BOOLEAN : SetInvertAxes(b)
    \/ BuildLayout

SpecLayout == InitLayout /\ [][NextLayout]_vars

(***************************************************************************)
(* Properties                                                              *)
(***************************************************************************)
GenerateCalls == {"initialize_plot", "update_frame"}

\* The traces of the figures the child plots i.. return for the key, from
\* the handles they hold, in the order of the subplots
RECURSIVE KidTraces(_, _, _)
KidTraces(ks, key, i) ==
    IF i > Len(ks) THEN <<>>
    ELSE generate_plot(KidPlot(plot, i), ks[i].handles, key, ks[i].hmap[key], ranges).fig.data
         \o KidTraces(ks, key, i + 1)

\* C1: one call of OverlayPlot.generate_plot that returns a figure returns
\* the traces of the first child's figure, then those of the second, and so
\* on in the order of the subplots, each child generated with the call's key
\* and range table; nothing is dropped, duplicated or reordered.
C1_OverlayOrder ==
    [][(oret'.call # "none" /\ oret'.exc = None)
         => oret'.out.data = KidTraces(kids, lastkey', 1)]_vars

\* C1 witness: an update drew three children that all have an element
C1_Witness ==
    /\ oret.call = "update_frame"
    /\ oret.exc = None
    /\ \A i \in 1..3 : kids[i].hmap[lastkey] # None
    /\ Len(oret.out.data) >= 5

\* The traces built afresh from the frames the child plots i.. have at the
\* key; a child without a frame at the key has none
RECURSIVE FreshTraces(_, _, _)
FreshTraces(ks, key, i) ==
    IF i > Len(ks) THEN <<>>
    ELSE (IF ks[i].hmap[key] = None THEN <<>>
          ELSE generate_plot(KidPlot(plot, i), Empty, key, ks[i].hmap[key], ranges).fig.data)
         \o FreshTraces(ks, key, i + 1)

\* C4: the figure an overlay plot holds after a frame has been drawn holds
\* exactly the traces built from the frames its children have at that key,
\* and the overlay's own layout entries for that key: no trace of an earlier
\* frame, and no more traces when the key is drawn again, also when a child
\* has no element at the key.
C4_Regenerated ==
    (oret.call # "none" /\ oret.exc = None)
      => /\ ohandles.fig.data = FreshTraces(kids, lastkey, 1)
         /\ ohandles.fig.layout.title = [kind |-> "title", key |-> lastkey]

\* The style dict and the options of child i at the key
KidStyle(i) == LookupStyle(plot.style, i - 1)
KidOptions(i, key) ==
    graph_options(KidPlot(plot, i), kids[i].hmap[key], ranges, KidStyle(i)).opts

\* The fields of the group under k of a dict, none where it has no such group
GroupFields(d, k) == IF k \in DOMAIN d THEN DOMAIN d[k] ELSE {}

\* C10: in the traces a child plot built from the records of its element,
\* the style group of trace j holds only the fields of the options' style
\* group and the fields of the style group of record j.
C10_TraceIsolation ==
    (oret.call # "none" /\ oret.exc = None)
      => \A i \in DOMAIN kids :
           kids[i].hmap[lastkey] # None
             => \A j \in DOMAIN kids[i].hmap[lastkey].records :
                  GroupFields(kids[i].handles.graphs[j], plot.style_key)
                    \subseteq (GroupFields(KidOptions(i, lastkey), plot.style_key)
                               \cup GroupFields(kids[i].hmap[lastkey].records[j], plot.style_key))

\* C2: a second call with the same element, the same style dict object and
\* the same range table returns what the first call returned:
\* _apply_transforms the same resolved style, generate_plot the same figure.
C2_Idempotent ==
    [][/\ (ret.call = "apply" /\ ret'.call = "apply")
            => (ret'.exc = ret.exc /\ ret'.out = ret.out)
       /\ (ret.call \in GenerateCalls /\ ret'.call \in GenerateCalls)
            => (ret'.exc = ret.exc /\ ret'.out = ret.out)]_vars

\* C3: the style dict that was passed to _apply_transforms holds the same
\* keys and values after the call as before it, its 'cmap' entry included.
C3_StyleReadOnly ==
    ret.call = "apply"
      => /\ style = ret.arg
         /\ ("cmap" \in Keys(ret.arg) => "cmap" \in Keys(style))

\* The style dict the last call resolved
Resolved(i) == Coerce(plot, element, ret.arg[i].v)

\* The loop of _apply_transforms reaches the i-th item of the style dict: no
\* item before it raises
Reached(i) ==
    TransformLoop(plot, element, ranges, SubSeq(ret.arg, 1, i - 1),
                  [new_style |-> AsDict(ret.arg), style |-> ret.arg,
                   warnings |-> <<>>, exc |-> None]).exc = None

\* The i-th item is a style that cannot be vectorized and its transform
\* evaluates to an array of more than one distinct value
Offending(i) ==
    /\ ret.arg[i].k \in plot.nonvectorized_styles
    /\ Resolved(i).kind = "dim"
    /\ applies(Resolved(i), element)
    /\ ~(Resolved(i).ops = <<>> /\ Resolved(i).dimension \in DOMAIN plot.overlay_dims)
    /\ Cardinality(Range(apply(Resolved(i), element, ranges).data)) > 1

\* C5: when the loop of _apply_transforms reaches a style that cannot be
\* vectorized and whose transform evaluates to an array of more than one
\* distinct value, the call raises the error naming that style, the
\* transform's dimension, the element type and the backend; no resolved
\* style is returned, and generate_plot returns no figure and stores none.
C5_FatalGuard ==
    ret.call # "none"
      => \A i \in DOMAIN ret.arg :
           (Reached(i) /\ Offending(i))
             => /\ ret.exc = [kind |-> "raise", type |-> "ValueError", style |-> ret.arg[i].k,
                              dim |-> Resolved(i).dimension, element |-> element.type,
                              backend |-> plot.backend]
                /\ ret.out = None
                /\ (ret.call \in GenerateCalls => (handles = Empty /\ ~plot.drawn))

\* C5 witness: generate_plot raised the error for the size style
C5_Witness ==
    /\ ret.call \in GenerateCalls
    /\ \E i \in DOMAIN ret.arg : Reached(i) /\ Offending(i) /\ ret.arg[i].k = "size"
    /\ ret.exc # None
    /\ ret.exc.type = "ValueError"

\* The i-th item is a transform that references a dimension that is neither
\* on the element nor an overlay dimension
Dangling(i) ==
    /\ Resolved(i).kind = "dim"
    /\ \E d \in Referenced(Resolved(i)) :
         ~InElement(d, element) /\ d \notin DOMAIN plot.overlay_dims

\* The style dict without its i-th item
Without(st, i) == SubSeq(st, 1, i - 1) \o SubSeq(st, i + 1, Len(st))

\* C6: a style whose transform references a dimension that is neither on the
\* element nor an overlay dimension is left out of the resolved style with a
\* warning naming the style and the transform; the call raises no error
\* because of it, and returns what it would return without that style.
C6_UnresolvedDropped ==
    ret.call = "apply"
      => \A i \in DOMAIN ret.arg :
           Dangling(i)
             => /\ ret.exc = apply_transforms(plot, element, ranges, Without(ret.arg, i)).exc
                /\ ret.exc = None
                     => /\ ret.arg[i].k \notin DOMAIN ret.out
                        /\ ret.out = apply_transforms(plot, element, ranges,
                                                      Without(ret.arg, i)).new_style
                        /\ [attr |-> ret.arg[i].k, transform |-> Resolved(i)]
                             \in Range(ret.warnings)

\* The i-th item is a transform evaluated on the element's data
Evaluated(i) ==
    /\ Resolved(i).kind = "dim"
    /\ applies(Resolved(i), element)
    /\ ~(Resolved(i).ops = <<>> /\ Resolved(i).dimension \in DOMAIN plot.overlay_dims)

\* C7: in the resolved style, a style whose transform evaluates to an array
\* of one distinct value is that value if its name does not contain "color",
\* and the whole array if it does.
C7_Collapse ==
    (ret.call = "apply" /\ ret.exc = None)
      => \A i \in DOMAIN ret.arg :
           (Evaluated(i) /\ Cardinality(Range(apply(Resolved(i), element, ranges).data)) = 1)
             => ret.out[ret.arg[i].k] =
                  IF Contains(ret.arg[i].k, "color")
                  THEN apply(Resolved(i), element, ranges)
                  ELSE [kind |-> "scalar",
                        dtype |-> apply(Resolved(i), element, ranges).dtype,
                        val |-> apply(Resolved(i), element, ranges).data[1]]

\* C7 witness: size and color both map the size dimension, whose values are
\* all 5; size resolved to 5 and color to the array
C7_Witness ==
    /\ ret.call = "apply"
    /\ ret.exc = None
    /\ Keys(ret.arg) = {"size", "color"}
    /\ ret.out["size"] = Num(5)
    /\ ret.out["color"] = Arr("f", Const(5))

\* The bounds and the auto flag of the options get_color_opts returned
Bounds(opts) == <<opts["cmin"], opts["cmax"], opts["cauto"]>>

\* The bounds lo, hi as the symmetric option leaves them
AroundZero(lo, hi) ==
    IF plot.symmetric
    THEN <<Num(-SetMax({Abs(lo), Abs(hi)})), Num(SetMax({Abs(lo), Abs(hi)}))>>
    ELSE <<Num(lo), Num(hi)>>

\* C8 as stated: the bounds are the range table's combined bounds with auto
\* false if the table has an entry for the dimension; otherwise, for a
\* transform with chained operations, auto is true and the bounds are
\* undefined; otherwise the bounds are the element's range of the dimension
\* with auto false.
C8_BoundsAsStated ==
    ret.call = "color"
      => Bounds(ret.out) =
           IF dim_range_key(ret.eldim) \in DOMAIN ranges
           THEN <<Num(ranges[dim_range_key(ret.eldim)].combined[1]),
                  Num(ranges[dim_range_key(ret.eldim)].combined[2]), Bool(FALSE)>>
           ELSE IF ret.eldim.kind = "dim" /\ ret.eldim.ops # <<>>
           THEN <<NaN, NaN, Bool(TRUE)>>
           ELSE <<Num(element_range(element, dim_range_key(ret.eldim))[1]),
                  Num(element_range(element, dim_range_key(ret.eldim))[2]), Bool(FALSE)>>

\* C8 amended: the bounds are the range table's combined bounds with auto
\* false if the table has an entry for the dimension; otherwise, for any dim
\* transform, bare or with operations, auto is true and the bounds are
\* undefined; otherwise, for a Dimension object, the bounds are the
\* element's range of the dimension with auto false.  With the symmetric
\* option, defined bounds (lo, hi) become (-m, m), m = max(|lo|, |hi|).
C8_Bounds ==
    ret.call = "color"
      => Bounds(ret.out) =
           IF dim_range_key(ret.eldim) \in DOMAIN ranges
           THEN AroundZero(ranges[dim_range_key(ret.eldim)].combined[1],
                           ranges[dim_range_key(ret.eldim)].combined[2]) \o <<Bool(FALSE)>>
           ELSE IF ret.eldim.kind = "dim"
           THEN <<NaN, NaN, Bool(TRUE)>>
           ELSE AroundZero(element_range(element, ret.eldim.name)[1],
                           element_range(element, ret.eldim.name)[2]) \o <<Bool(FALSE)>>

\* C8 witness: a bare transform of a dimension the range table has no entry
\* for was auto-scaled
C8_Witness ==
    /\ ret.call = "color"
    /\ ret.eldim = Dim("size", <<>>)
    /\ "size" \notin DOMAIN ranges
    /\ ret.out["cauto"] = Bool(TRUE)

\* The range and the title of an axis of a layout, none where the layout
\* has no such axis
AxisOf(layout, axis) ==
    IF axis \in DOMAIN layout
    THEN [range |-> layout[axis].range, title |-> layout[axis].title]
    ELSE None

\* C9: with both axes labelled, the layout built with invert_axes has as its
\* x-axis range and title the y-axis range and title of the layout built
\* without, and as its y-axis range and title the x-axis range and title of
\* that layout.
C9_InversionAtomic ==
    (DOMAIN lay = {"plain", "inverted"} /\ plot.labelled = {"x", "y"})
      => /\ AxisOf(lay["inverted"], "xaxis") = AxisOf(lay["plain"], "yaxis")
         /\ AxisOf(lay["inverted"], "yaxis") = AxisOf(lay["plain"], "xaxis")

====
